---- MODULE Spec2Model ----
(***************************************************************************)
(* State-machine model of scripts/update_data.py, the crypto-treasury data *)
(* updater: the two source adapters (get_stock_data, get_crypto_data), the *)
(* de-duplication and sort inside get_crypto_data, calculate_performance   *)
(* and the orchestration loop of main.                                     *)
(*                                                                         *)
(* Representation of Python values:                                        *)
(*   - a date string "YYYY-MM-DD" is the triple <<y, m, d>>; comparing the *)
(*     zero-padded strings is comparing the triples lexicographically;     *)
(*   - a price (a float) is an integer number of micro-dollars (10^-6);    *)
(*   - a percentage rounded to 2 places is an integer number of            *)
(*     hundredths of a percent (33.33 is 3333);                            *)
(*   - None is the empty sequence <<>> and a present value v is <<v>>;     *)
(*   - a dict is the sequence of its entries in insertion order;           *)
(*   - a CoinGecko timestamp is given in whole seconds (timestamp / 1000). *)
(***************************************************************************)
EXTENDS Integers, Sequences, FiniteSets, TLC

VARIABLES
    \* main
    pc, cat, comp, output_data, category_data, clock, written, fetch_log,
    \* one call of get_crypto_data against a scripted upstream
    a_pc, upstream, fetched,
    \* one call of calculate_performance
    p_pc, prices, performance

vars == <<pc, cat, comp, output_data, category_data, clock, written, fetch_log,
          a_pc, upstream, fetched, p_pc, prices, performance>>

main_vars == <<pc, cat, comp, output_data, category_data, clock, written, fetch_log>>
adapter_vars == <<a_pc, upstream, fetched>>
perf_vars == <<p_pc, prices, performance>>

(***************************************************************************)
(* Bounds of the model.                                                    *)
(***************************************************************************)
\* longest upstream "prices" array of one CoinGecko answer
MaxItems == 3
\* most consecutive HTTP 429 answers before the upstream's final answer
MaxRateLimited == 2
\* longest series handed to calculate_performance
MaxSeriesLen == 3
\* how many categories of TREASURY_COMPANIES a run iterates
NumCategories == 3

(***************************************************************************)
(* Python values.                                                          *)
(***************************************************************************)
None == <<>>
Some(v) == <<v>>
IsNone(x) == x = <<>>
Val(x) == x[1]

Abs(n) == IF n < 0 THEN -n ELSE n

\* number of decimal places the model's fixed-point prices keep
UnitPlaces == 6

RECURSIVE Pow10(_)
Pow10(n) == IF n = 0 THEN 1 ELSE 10 * Pow10(n - 1)

\* x / step rounded to the nearest integer, ties to the even one (Python's
\* round); x >= 0, step > 0
RoundHalfEvenDiv(x, step) ==
    LET q == x \div step
        r == x % step
    IN  IF 2 * r < step THEN q
        ELSE IF 2 * r > step THEN q + 1
        ELSE IF q % 2 = 0 THEN q ELSE q + 1

\* round(price, places) on a fixed-point price
RoundPlaces(price, places) ==
    IF places >= UnitPlaces THEN price
    ELSE LET step == Pow10(UnitPlaces - places)
         IN  IF price >= 0 THEN step * RoundHalfEvenDiv(price, step)
             ELSE -(step * RoundHalfEvenDiv(-price, step))

(***************************************************************************)
(* datetime: ordinals, strptime / strftime, fromtimestamp.                 *)
(***************************************************************************)
IsLeap(y) == (y % 4 = 0) /\ ((y % 100 # 0) \/ (y % 400 = 0))

DaysInMonth(y, m) ==
    IF m = 2 THEN (IF IsLeap(y) THEN 29 ELSE 28)
    ELSE IF m \in {4, 6, 9, 11} THEN 30 ELSE 31

\* days before January 1 of year y
DaysBeforeYear(y) ==
    LET p == y - 1 IN 365 * p + (p \div 4) - (p \div 100) + (p \div 400)

RECURSIVE DaysBeforeMonth(_, _)
DaysBeforeMonth(y, m) ==
    IF m = 1 THEN 0 ELSE DaysBeforeMonth(y, m - 1) + DaysInMonth(y, m - 1)

\* datetime.strptime(s, "%Y-%m-%d") as a day ordinal
ToOrdinal(date) ==
    DaysBeforeYear(date[1]) + DaysBeforeMonth(date[1], date[2]) + date[3]

\* the date string of a day ordinal (strftime("%Y-%m-%d"))
FromOrdinal(n) ==
    LET y == CHOOSE yy \in 1970..2038 :
                 DaysBeforeYear(yy) < n /\ n <= DaysBeforeYear(yy + 1)
        rest == n - DaysBeforeYear(y)
        m == CHOOSE mm \in 1..12 :
                 DaysBeforeMonth(y, mm) < rest
                 /\ rest <= DaysBeforeMonth(y, mm) + DaysInMonth(y, mm)
    IN  <<y, m, rest - DaysBeforeMonth(y, m)>>

\* datetime.fromtimestamp(seconds).strftime("%Y-%m-%d"), clock in UTC
DateOfTimestamp(seconds) == FromOrdinal(719163 + (seconds \div 86400))

\* a["date"] < b["date"] on the strings
DateLess(a, b) ==
    \/ a[1] < b[1]
    \/ a[1] = b[1] /\ a[2] < b[2]
    \/ a[1] = b[1] /\ a[2] = b[2] /\ a[3] < b[3]

(***************************************************************************)
(* get_crypto_data                                                         *)
(***************************************************************************)
\* the precision tiers of one price
RoundPrice(price) ==
    IF price < Pow10(UnitPlaces - 2) THEN RoundPlaces(price, 8)
    ELSE IF price < Pow10(UnitPlaces) THEN RoundPlaces(price, 6)
    ELSE RoundPlaces(price, 2)

\* the loop over data["prices"]: one {"date", "price"} per item
RECURSIVE ParsePrices(_)
ParsePrices(items) ==
    IF items = <<>> THEN <<>>
    ELSE <<[date |-> DateOfTimestamp(Head(items)[1]),
            price |-> RoundPrice(Head(items)[2])]>>
         \o ParsePrices(Tail(items))

\* seen[p["date"]] = p on a dict kept as its entries in insertion order
DictPut(seen, p) ==
    IF \E i \in 1..Len(seen) : seen[i].date = p.date
    THEN [i \in 1..Len(seen) |-> IF seen[i].date = p.date THEN p ELSE seen[i]]
    ELSE Append(seen, p)

\* seen = {}; for p in prices: seen[p["date"]] = p; list(seen.values())
RECURSIVE DedupInto(_, _)
DedupInto(seen, ps) ==
    IF ps = <<>> THEN seen ELSE DedupInto(DictPut(seen, Head(ps)), Tail(ps))

\* insertion of p after every entry whose date is not greater (stable)
RECURSIVE InsertByDate(_, _)
InsertByDate(sorted, p) ==
    IF sorted = <<>> THEN <<p>>
    ELSE IF DateLess(p.date, Head(sorted).date) THEN <<p>> \o sorted
    ELSE <<Head(sorted)>> \o InsertByDate(Tail(sorted), p)

\* prices.sort(key=lambda x: x["date"])
RECURSIVE SortByDate(_)
SortByDate(ps) ==
    IF ps = <<>> THEN <<>>
    ELSE InsertByDate(SortByDate(SubSeq(ps, 1, Len(ps) - 1)), ps[Len(ps)])

\* a plausible slip: only adjacent same-date entries are merged before the sort
RECURSIVE DedupAdjacent(_)
DedupAdjacent(ps) ==
    IF Len(ps) < 2 THEN ps
    ELSE IF ps[1].date = ps[2].date THEN DedupAdjacent(Tail(ps))
    ELSE <<ps[1]>> \o DedupAdjacent(Tail(ps))

NormalizeAdjacentOnly(ps) == SortByDate(DedupAdjacent(ps))

\* a plausible slip: the first entry of a date is kept, not the last
RECURSIVE DedupFirst(_, _)
DedupFirst(seen, ps) ==
    IF ps = <<>> THEN seen
    ELSE DedupFirst(IF \E i \in 1..Len(seen) : seen[i].date = Head(ps).date
                    THEN seen ELSE Append(seen, Head(ps)),
                    Tail(ps))

NormalizeKeepFirst(ps) == SortByDate(DedupFirst(<<>>, ps))

\* "Remove duplicates (keep last entry for each date)" and the sort
Normalize(ps) == SortByDate(DedupInto(<<>>, ps))

\* An upstream answer to one requests.get: the call raises (a timeout, a
\* connection error), or a response with a status and a JSON body.
Raised == [raises |-> TRUE, status |-> 0, valid |-> FALSE, items |-> <<>>]
Http(status) == [raises |-> FALSE, status |-> status, valid |-> FALSE, items |-> <<>>]
Malformed == [raises |-> FALSE, status |-> 200, valid |-> FALSE, items |-> <<>>]
Ok(items) == [raises |-> FALSE, status |-> 200, valid |-> TRUE, items |-> items]

\* whether the try block of get_crypto_data raises on this answer
CryptoRaises(response) ==
    \/ response.raises               \* requests.get
    \/ response.status >= 400        \* raise_for_status
    \/ ~response.valid               \* response.json(), the unpacking of an item

\* get_crypto_data against an upstream that would answer successive requests
\* with responses[1], responses[2], ...: what it returns, the requests it
\* made and the waits (in seconds) it slept between them
get_crypto_data(responses) ==
    LET response == responses[1]
    IN  [prices |-> IF CryptoRaises(response) THEN <<>>
                    ELSE Normalize(ParsePrices(response.items)),
         requests |-> 1,
         sleeps |-> <<>>]

(***************************************************************************)
(* calculate_performance                                                   *)
(***************************************************************************)
PeriodLabels == {"1W", "3M", "6M", "YTD", "1Y"}
FixedLabels == {"1W", "3M", "6M", "1Y"}

\* periods = {"1W": 7, "3M": 90, "6M": 180, "1Y": 365}
PeriodDays(label) ==
    CASE label = "1W" -> 7
      [] label = "3M" -> 90
      [] label = "6M" -> 180
      [] label = "1Y" -> 365

\* {"1W": None, "3M": None, "6M": None, "YTD": None, "1Y": None}
AllNone == [label \in PeriodLabels |-> None]

\* diff < min_diff with min_diff starting at float('inf') (None here)
BelowMin(diff, min_diff) == IsNone(min_diff) \/ diff < Val(min_diff)

\* a plausible slip: <= lets the last of two equidistant points win
BelowOrAtMin(diff, min_diff) == IsNone(min_diff) \/ diff <= Val(min_diff)

\* q and r after n more decimal digits of the long division by a
RECURSIVE ScaleDiv(_, _, _, _)
ScaleDiv(q, r, a, n) ==
    IF n = 0 THEN <<q, r>>
    ELSE ScaleDiv(10 * q + ((10 * r) \div a), (10 * r) % a, a, n - 1)

\* x / a * 100 rounded to 2 places, in hundredths, for x >= 0 and a > 0
ScaledRound(x, a) ==
    LET qr == ScaleDiv(x \div a, x % a, a, 4)
        q == qr[1]
        r == qr[2]
    IN  IF 2 * r < a THEN q
        ELSE IF 2 * r > a THEN q + 1
        ELSE IF q % 2 = 0 THEN q ELSE q + 1

\* round(((current_price - closest_price) / closest_price) * 100, 2)
PerfValue(current_price, closest_price) ==
    LET x == current_price - closest_price
    IN  IF x >= 0 THEN ScaledRound(x, closest_price)
        ELSE -ScaledRound(-x, closest_price)

\* a plausible slip: only the truthiness of the anchor price is tested
PerformanceOfTruthyOnly(current_price, closest_price) ==
    IF ~IsNone(closest_price) /\ Val(closest_price) # 0
    THEN Some(PerfValue(current_price, Abs(Val(closest_price))))
    ELSE None

\* if closest_price and closest_price > 0: ... else: None
PerformanceOf(current_price, closest_price) ==
    IF ~IsNone(closest_price) /\ Val(closest_price) # 0 /\ Val(closest_price) > 0
    THEN Some(PerfValue(current_price, Val(closest_price)))
    ELSE None

\* the scan for one fixed window, from the entry at index i on
RECURSIVE ScanClosestFrom(_, _, _, _, _)
ScanClosestFrom(ps, i, target_date, current_date, acc) ==
    IF i > Len(ps) THEN acc
    ELSE LET p_date == ToOrdinal(ps[i].date)
             diff == Abs(p_date - target_date)
         IN  ScanClosestFrom(ps, i + 1, target_date, current_date,
                 IF BelowMin(diff, acc.min_diff) /\ p_date <= current_date
                 THEN [min_diff |-> Some(diff), price |-> Some(ps[i].price)]
                 ELSE acc)

\* a plausible slip: the tie-break of the scan reversed
RECURSIVE ScanClosestLastWins(_, _, _, _, _)
ScanClosestLastWins(ps, i, target_date, current_date, acc) ==
    IF i > Len(ps) THEN acc
    ELSE LET p_date == ToOrdinal(ps[i].date)
             diff == Abs(p_date - target_date)
         IN  ScanClosestLastWins(ps, i + 1, target_date, current_date,
                 IF BelowOrAtMin(diff, acc.min_diff) /\ p_date <= current_date
                 THEN [min_diff |-> Some(diff), price |-> Some(ps[i].price)]
                 ELSE acc)

ScanClosestTieLast(ps, target_date, current_date) ==
    ScanClosestLastWins(ps, 1, target_date, current_date,
                        [min_diff |-> None, price |-> None])

\* closest_price = None; min_diff = float('inf'); for p in prices: ...
ScanClosest(ps, target_date, current_date) ==
    ScanClosestFrom(ps, 1, target_date, current_date,
                    [min_diff |-> None, price |-> None])

\* the scan for the year-to-date anchor, from the entry at index i on
RECURSIVE ScanYtdFrom(_, _, _, _)
ScanYtdFrom(ps, i, ytd_start, acc) ==
    IF i > Len(ps) THEN acc
    ELSE LET p_date == ToOrdinal(ps[i].date)
             diff == Abs(p_date - ytd_start)
         IN  ScanYtdFrom(ps, i + 1, ytd_start,
                 IF BelowMin(diff, acc.min_diff) /\ p_date >= ytd_start
                 THEN [min_diff |-> Some(diff), price |-> Some(ps[i].price)]
                 ELSE acc)

\* a plausible slip: the nearest point to January 1, on either side of it
RECURSIVE ScanYtdEitherSide(_, _, _, _)
ScanYtdEitherSide(ps, i, ytd_start, acc) ==
    IF i > Len(ps) THEN acc
    ELSE LET p_date == ToOrdinal(ps[i].date)
             diff == Abs(p_date - ytd_start)
         IN  ScanYtdEitherSide(ps, i + 1, ytd_start,
                 IF BelowMin(diff, acc.min_diff)
                 THEN [min_diff |-> Some(diff), price |-> Some(ps[i].price)]
                 ELSE acc)

ScanYtdNearest(ps, ytd_start) ==
    ScanYtdEitherSide(ps, 1, ytd_start, [min_diff |-> None, price |-> None])

\* ytd_price = None; min_diff = float('inf'); for p in prices: ...
ScanYtd(ps, ytd_start) ==
    ScanYtdFrom(ps, 1, ytd_start, [min_diff |-> None, price |-> None])

\* calculate_performance past its length test
PerformanceBody(ps) ==
    LET current_price == ps[Len(ps)].price
        current_date == ToOrdinal(ps[Len(ps)].date)
        ytd_start == ToOrdinal(<<ps[Len(ps)].date[1], 1, 1>>)
    IN  [label \in PeriodLabels |->
            IF label = "YTD"
            THEN PerformanceOf(current_price, ScanYtd(ps, ytd_start).price)
            ELSE PerformanceOf(current_price,
                     ScanClosest(ps, current_date - PeriodDays(label),
                                 current_date).price)]

\* a plausible slip: only the empty series is refused
calculate_performance_nonempty(ps) ==
    IF Len(ps) < 1 THEN AllNone ELSE PerformanceBody(ps)

calculate_performance(ps) ==
    IF ps = <<>> \/ Len(ps) < 2 THEN AllNone ELSE PerformanceBody(ps)

(***************************************************************************)
(* get_stock_data                                                          *)
(***************************************************************************)
\* the loop over df.iterrows(): the index formatted as a date, the close
\* rounded to 2 places
RECURSIVE StockRows(_)
StockRows(rows) ==
    IF rows = <<>> THEN <<>>
    ELSE <<[date |-> FromOrdinal(Head(rows)[1]),
            price |-> RoundPlaces(Head(rows)[2], 2)]>>
         \o StockRows(Tail(rows))

\* a plausible slip: the except branch returns the rows read so far
get_stock_data_partial(answer) ==
    IF answer.rows = <<>> THEN <<>> ELSE StockRows(answer.rows)

\* get_stock_data on what yfinance does for the ticker: history() or the
\* loop raises (after the rows given), or history() returns the rows
get_stock_data(answer) ==
    IF answer.raises THEN <<>>
    ELSE IF answer.rows = <<>> THEN <<>>
    ELSE StockRows(answer.rows)

(***************************************************************************)
(* main                                                                    *)
(***************************************************************************)
TREASURY_COMPANIES == <<
    [key |-> "BTC", coin_id |-> "bitcoin", coin_symbol |-> "BTC", color |-> "#f7931a",
     companies |-> <<[ticker |-> "MSTR", name |-> "Strategy"],
                     [ticker |-> "XXI", name |-> "Twenty One"],
                     [ticker |-> "CEPO", name |-> "Bitcoin Standard"],
                     [ticker |-> "ASST", name |-> "Strive"],
                     [ticker |-> "NAKA", name |-> "KindlyMD (Nakamoto)"],
                     [ticker |-> "BRR", name |-> "PropCap BTC"],
                     [ticker |-> "SQNS", name |-> "Sequans Comm"]>>],
    [key |-> "ETH", coin_id |-> "ethereum", coin_symbol |-> "ETH", color |-> "#627eea",
     companies |-> <<[ticker |-> "BMNR", name |-> "BitMine"],
                     [ticker |-> "SBET", name |-> "Sharplink Gaming"],
                     [ticker |-> "ETHM", name |-> "Ether Machine"],
                     [ticker |-> "BTBT", name |-> "Bit Digital"],
                     [ticker |-> "BTCS", name |-> "BTCS Inc."],
                     [ticker |-> "ETHZ", name |-> "ETHZilla"],
                     [ticker |-> "FGNX", name |-> "FG Nexus"],
                     [ticker |-> "GAME", name |-> "GameSquare Holdings"]>>],
    [key |-> "SOL", coin_id |-> "solana", coin_symbol |-> "SOL", color |-> "#00ffa3",
     companies |-> <<[ticker |-> "FWDI", name |-> "Forward Industries"],
                     [ticker |-> "HSDT", name |-> "Solana Company"],
                     [ticker |-> "DFDV", name |-> "DeFi Development"],
                     [ticker |-> "UPXI", name |-> "Upexi"],
                     [ticker |-> "STSS", name |-> "Sharps Technology"],
                     [ticker |-> "STKE", name |-> "Sol Strategies"],
                     [ticker |-> "SLMT", name |-> "Solmate"],
                     [ticker |-> "SLAI", name |-> "SOLAI Limited"]>>],
    [key |-> "HYPE", coin_id |-> "hyperliquid", coin_symbol |-> "HYPE", color |-> "#00d4aa",
     companies |-> <<[ticker |-> "PURR", name |-> "Sonnet BioTher"],
                     [ticker |-> "HYPD", name |-> "Hyperion DeFi"]>>],
    [key |-> "SUI", coin_id |-> "sui", coin_symbol |-> "SUI", color |-> "#4da2ff",
     companies |-> <<[ticker |-> "SUIG", name |-> "SUI Group Holdings"]>>],
    [key |-> "INJ", coin_id |-> "injective-protocol", coin_symbol |-> "INJ", color |-> "#00f2fe",
     companies |-> <<[ticker |-> "PAPL", name |-> "Pineapple Financial"]>>],
    [key |-> "BNB", coin_id |-> "binancecoin", coin_symbol |-> "BNB", color |-> "#f3ba2f",
     companies |-> <<[ticker |-> "BNC", name |-> "CEA Industries"]>>],
    [key |-> "BONK", coin_id |-> "bonk", coin_symbol |-> "BONK", color |-> "#ff6b35",
     companies |-> <<[ticker |-> "BNKK", name |-> "Bonk Inc."]>>],
    [key |-> "IP", coin_id |-> "story-protocol", coin_symbol |-> "IP", color |-> "#9945ff",
     companies |-> <<[ticker |-> "IPST", name |-> "Heritage Distilling"]>>] >>

STOCK_COLORS == <<"#ef4444", "#f97316", "#eab308", "#84cc16", "#22c55e",
                  "#14b8a6", "#06b6d4", "#3b82f6", "#8b5cf6", "#ec4899">>

Min(a, b) == IF a < b THEN a ELSE b

\* the categories a run iterates, in the order of TREASURY_COMPANIES.items():
\* NumCategories of them from "HYPE" on (the categories before it differ
\* only in holding seven or eight companies each)
Catalog ==
    SubSeq(TREASURY_COMPANIES, 4, Min(3 + NumCategories, Len(TREASURY_COMPANIES)))

\* config["companies"], in the order of the list
Companies(config) == config.companies

\* datetime.now().strftime("%Y-%m-%d %H:%M") of a clock that counts half
\* seconds: the minute
FormatMinute(ticks) == ticks \div 120

\* d[key] = value on a dict kept as its entries in insertion order
DictSet(d, key, value) ==
    IF \E i \in 1..Len(d) : d[i].key = key
    THEN [i \in 1..Len(d) |-> IF d[i].key = key THEN [key |-> key, value |-> value]
                                               ELSE d[i]]
    ELSE Append(d, [key |-> key, value |-> value])

\* the category_data of one category once its coin is fetched
CategoryData(config, coin_prices) ==
    [coin_id |-> config.coin_id,
     coin_symbol |-> config.coin_symbol,
     coin_color |-> config.color,
     coin_prices |-> coin_prices,
     coin_performance |-> calculate_performance(coin_prices),
     companies |-> <<>>]

\* the company_data of the i-th company (i from 0) of a category
CompanyData(i, company, stock_prices) ==
    [ticker |-> company.ticker,
     name |-> company.name,
     color |-> STOCK_COLORS[(i % Len(STOCK_COLORS)) + 1],
     prices |-> stock_prices,
     performance |-> calculate_performance(stock_prices)]

\* Upstream behaviours a run of main is exposed to.  CoinGecko: the request
\* is rate-limited, or times out, or answers with daily prices holding a
\* repeated and an out-of-order day.
CoinItems ==
    <<<<1735689600, 1234567>>, <<1735603200, 500000>>, <<1735689599, 5000>>>>

CoinUpstreams == {<<Http(429)>>, <<Raised>>, <<Ok(CoinItems)>>}

\* yfinance: history() raises, or the loop raises after some rows, or the
\* frame is empty, or it holds rows in ascending order, or rows with a
\* repeated and an out-of-order day
StockAnswers ==
    {[raises |-> TRUE, rows |-> <<>>],
     [raises |-> TRUE, rows |-> <<<<739251, 1234567>>>>],
     [raises |-> FALSE, rows |-> <<>>],
     [raises |-> FALSE, rows |-> <<<<739251, 1234567>>, <<739253, 2345678>>>>],
     [raises |-> FALSE, rows |-> <<<<739253, 2345678>>, <<739251, 1234567>>,
                                   <<739253, 2000000>>>>]}

\* the instants of a minute at which a run may start, in half seconds
StartClocks == {0, 119}

\* what the run remembers of one fetch, for the properties only
LogEntry(c, i, failed, returned) ==
    [cat |-> c, comp |-> i, failed |-> failed, returned |-> returned]

\* the assignment output_data["categories"][category] = category_data and
\* the step of the outer loop
StoreCategory(cd) ==
    /\ output_data' = [output_data EXCEPT
                         !.categories = DictSet(@, Catalog[cat].key, cd)]
    /\ IF cat < Len(Catalog)
       THEN pc' = "coin" /\ cat' = cat + 1
       ELSE pc' = "save" /\ cat' = cat

\* the banner, the API-key check and the creation of output_data
Begin ==
    /\ pc = "begin"
    /\ output_data' = [updated_at |-> Some(FormatMinute(clock)), categories |-> <<>>]
    /\ pc' = IF Len(Catalog) = 0 THEN "save" ELSE "coin"
    /\ cat' = 1
    /\ UNCHANGED <<comp, category_data, clock, written, fetch_log>>
    /\ UNCHANGED <<adapter_vars, perf_vars>>

\* one iteration of the outer loop up to the first pacing sleep; the clock
\* counts the sleeps (0.5 s each) and takes a request to last no time
FetchCoin ==
    /\ pc = "coin"
    /\ \E responses \in CoinUpstreams :
         LET config == Catalog[cat]
             coin_prices == get_crypto_data(responses).prices
             cd == CategoryData(config, coin_prices)
         IN  /\ fetch_log' = Append(fetch_log,
                    LogEntry(cat, 0, CryptoRaises(responses[1]), coin_prices))
             /\ clock' = clock + 1
             /\ category_data' = cd
             /\ comp' = 1
             /\ IF Companies(config) = <<>>
                THEN StoreCategory(cd)
                ELSE pc' = "company" /\ UNCHANGED <<cat, output_data>>
    /\ UNCHANGED <<written, adapter_vars, perf_vars>>

\* one iteration of the inner loop; after the last company, the category is
\* stored
FetchStock ==
    /\ pc = "company"
    /\ \E answer \in StockAnswers :
         LET config == Catalog[cat]
             company == Companies(config)[comp]
             stock_prices == get_stock_data(answer)
             cd == [category_data EXCEPT
                      !.companies = Append(@, CompanyData(comp - 1, company,
                                                          stock_prices))]
         IN  /\ fetch_log' = Append(fetch_log,
                    LogEntry(cat, comp, answer.raises \/ answer.rows = <<>>,
                             stock_prices))
             /\ clock' = clock + 1
             /\ category_data' = cd
             /\ IF comp < Len(Companies(config))
                THEN comp' = comp + 1 /\ UNCHANGED <<pc, cat, output_data>>
                ELSE comp' = comp /\ StoreCategory(cd)
    /\ UNCHANGED <<written, adapter_vars, perf_vars>>

\* a plausible slip: the timestamp is taken again when the file is written
SaveRestamped ==
    /\ pc = "save"
    /\ output_data' = [output_data EXCEPT !.updated_at = Some(FormatMinute(clock))]
    /\ written' = Some(output_data')
    /\ pc' = "done"
    /\ UNCHANGED <<cat, comp, category_data, clock, fetch_log>>
    /\ UNCHANGED <<adapter_vars, perf_vars>>

\* json.dump(output_data, f)
Save ==
    /\ pc = "save"
    /\ written' = Some(output_data)
    /\ pc' = "done"
    /\ UNCHANGED <<cat, comp, output_data, category_data, clock, fetch_log>>
    /\ UNCHANGED <<adapter_vars, perf_vars>>

MainIdle ==
    /\ pc = "idle" /\ cat = 0 /\ comp = 0
    /\ output_data = [updated_at |-> None, categories |-> <<>>]
    /\ category_data = <<>>
    /\ clock = 0
    /\ written = None
    /\ fetch_log = <<>>

(***************************************************************************)
(* One call of get_crypto_data.                                            *)
(***************************************************************************)
Timestamps == {1735603200, 1735689599, 1735689600}
RawPrices == {5000, 500000, 1234567}

SeqsUpTo(S, n) == UNION {[1..k -> S] : k \in 0..n}

Bodies == SeqsUpTo(Timestamps \X RawPrices, MaxItems)

FinalResponses == {Raised, Http(429), Http(500), Malformed} \cup {Ok(b) : b \in Bodies}

\* k rate-limited answers, then a final one
Scripts ==
    {[i \in 1..(k + 1) |-> IF i <= k THEN Http(429) ELSE final] :
        k \in 0..MaxRateLimited, final \in FinalResponses}

NotFetched == [prices |-> <<>>, requests |-> 0, sleeps |-> <<>>]

AdapterIdle == a_pc = "idle" /\ upstream = <<>> /\ fetched = NotFetched

CallCrypto ==
    /\ a_pc = "ready"
    /\ fetched' = get_crypto_data(upstream)
    /\ a_pc' = "returned"
    /\ UNCHANGED <<upstream, main_vars, perf_vars>>

(***************************************************************************)
(* One call of calculate_performance.                                      *)
(***************************************************************************)
\* points around d = 2025-01-10: d-400, the last day of 2024, d-8, d-7,
\* d-6, d and d+2, with positive, zero and negative prices
PerfPoints ==
    {[date |-> <<2023, 12, 7>>, price |-> 100000000],
     [date |-> <<2024, 12, 31>>, price |-> 80000000],
     [date |-> <<2024, 12, 31>>, price |-> 0],
     [date |-> <<2025, 1, 2>>, price |-> 100000000],
     [date |-> <<2025, 1, 2>>, price |-> -50000000],
     [date |-> <<2025, 1, 3>>, price |-> 90000000],
     [date |-> <<2025, 1, 3>>, price |-> 0],
     [date |-> <<2025, 1, 4>>, price |-> 110000000],
     [date |-> <<2025, 1, 10>>, price |-> 120000000],
     [date |-> <<2025, 1, 10>>, price |-> 90000000],
     [date |-> <<2025, 1, 12>>, price |-> 100000000]}

PerfInputs == SeqsUpTo(PerfPoints, MaxSeriesLen)

PerfIdle == p_pc = "idle" /\ prices = <<>> /\ performance = AllNone

Calculate ==
    /\ p_pc = "ready"
    /\ performance' = calculate_performance(prices)
    /\ p_pc' = "returned"
    /\ UNCHANGED <<prices, main_vars, adapter_vars>>

(***************************************************************************)
(* Specifications.                                                         *)
(***************************************************************************)
\* a run of main
Init ==
    /\ pc = "begin" /\ cat = 0 /\ comp = 0
    /\ output_data = [updated_at |-> None, categories |-> <<>>]
    /\ category_data = <<>>
    /\ clock \in StartClocks
    /\ written = None
    /\ fetch_log = <<>>
    /\ AdapterIdle
    /\ PerfIdle

Next == Begin \/ FetchCoin \/ FetchStock \/ Save

Spec == Init /\ [][Next]_vars

\* main is one sequential flow of control: a step that can be taken is taken
SpecRun == Spec /\ WF_vars(Next)

\* get_crypto_data against every scripted upstream
InitAdapter ==
    /\ MainIdle
    /\ PerfIdle
    /\ a_pc = "ready"
    /\ upstream \in Scripts
    /\ fetched = NotFetched

NextAdapter == CallCrypto

SpecAdapter == InitAdapter /\ [][NextAdapter]_vars

\* calculate_performance on every series
InitPerf ==
    /\ MainIdle
    /\ AdapterIdle
    /\ p_pc = "ready"
    /\ prices \in PerfInputs
    /\ performance = AllNone

NextPerf == Calculate

SpecPerf == InitPerf /\ [][NextPerf]_vars

(***************************************************************************)
(* Properties.                                                             *)
(***************************************************************************)
StrictlyAscending(series) ==
    \A i \in 1..(Len(series) - 1) : DateLess(series[i].date, series[i + 1].date)

DatesOf(series) == {series[i].date : i \in 1..Len(series)}

\* the index of the last pair of raw that carries the date
LastIndexOf(raw, date) ==
    CHOOSE i \in 1..Len(raw) :
        raw[i].date = date /\ \A j \in (i + 1)..Len(raw) : raw[j].date # date

\* the number of HTTP 429 answers a script starts with
RECURSIVE LeadingRateLimited(_)
LeadingRateLimited(script) ==
    IF script # <<>> /\ ~Head(script).raises /\ Head(script).status = 429
    THEN 1 + LeadingRateLimited(Tail(script))
    ELSE 0

\* C1: on HTTP 429 the adapter waits attempt_index x 60 seconds and retries,
\* with at most 3 requests for one identifier; when the upstream answers k <= 2
\* times with 429 and then succeeds, the adapter makes k + 1 requests, sleeps
\* 60, ..., 60k seconds and returns the series parsed from the last answer
\* (so 429, 429, success gives the waits 60 and 120 and the parsed series).
C1_RetriesOn429 ==
    a_pc = "returned" =>
        LET k == LeadingRateLimited(upstream)
        IN  /\ fetched.requests <= 3
            /\ (k <= 2 /\ k < Len(upstream) /\ ~CryptoRaises(upstream[k + 1])) =>
                   /\ fetched.requests = k + 1
                   /\ fetched.sleeps = [i \in 1..k |-> 60 * i]
                   /\ fetched.prices = Normalize(ParsePrices(upstream[k + 1].items))

\* the records a finished run must hold, in catalog order
ReportCoversCatalog(report) ==
    /\ Len(report.categories) = Len(Catalog)
    /\ \A c \in 1..Len(Catalog) :
         LET entry == report.categories[c]
             config == Catalog[c]
         IN  /\ entry.key = config.key
             /\ entry.value.coin_id = config.coin_id
             /\ entry.value.coin_symbol = config.coin_symbol
             /\ Len(entry.value.companies) = Len(config.companies)
             /\ \A i \in 1..Len(config.companies) :
                  /\ entry.value.companies[i].ticker = config.companies[i].ticker
                  /\ entry.value.companies[i].name = config.companies[i].name

\* the series and the performance the report holds for a logged fetch
RecordOf(report, e) ==
    LET data == report.categories[e.cat].value
    IN  IF e.comp = 0
        THEN [prices |-> data.coin_prices, performance |-> data.coin_performance]
        ELSE [prices |-> data.companies[e.comp].prices,
              performance |-> data.companies[e.comp].performance]

NumRecords ==
    LET RECURSIVE Count(_)
        Count(c) == IF c = 0 THEN 0 ELSE Count(c - 1) + 1 + Len(Catalog[c].companies)
    IN  Count(Len(Catalog))

\* what a run holds on the way and once it has written the report
RunStateOk ==
    /\ pc # "done" => ENABLED Next
    /\ pc = "done" =>
         /\ ~IsNone(written)
         /\ ReportCoversCatalog(Val(written))
         /\ Len(fetch_log) = NumRecords
         /\ \A n \in 1..Len(fetch_log) :
              LET e == fetch_log[n]
                  rec == RecordOf(Val(written), e)
              IN  /\ e.failed => rec.prices = <<>> /\ rec.performance = AllNone
                  /\ ~e.failed => /\ rec.prices = e.returned
                                  /\ rec.performance = calculate_performance(e.returned)

\* C2: whatever fetches fail, a run of main goes on to write the output, and
\* the report written holds every catalog category with its asset and all its
\* companies in catalog order; a record whose fetch failed has an empty series
\* and five null periods, a record whose fetch succeeded holds what its own
\* adapter returned and the performance of that.
C2_RunCompletesWithFullReport == <>(pc = "done") /\ []RunStateOk

\* a finished run whose first asset fetch failed and whose first company
\* fetch returned a scored series
C2_Witness ==
    /\ pc = "done"
    /\ fetch_log[1].failed /\ fetch_log[1].comp = 0
    /\ ~fetch_log[2].failed /\ fetch_log[2].comp = 1
    /\ Val(written).categories[1].value.coin_prices = <<>>
    /\ Val(written).categories[1].value.coin_performance = AllNone
    /\ Len(Val(written).categories[1].value.companies[1].prices) = 2
    /\ Val(written).categories[1].value.companies[1].performance # AllNone
    /\ \E n \in 3..Len(fetch_log) : fetch_log[n].failed /\ fetch_log[n].comp > 0

\* C3: every series of the report, the asset's coin_prices and each company's
\* prices, has strictly ascending dates (so no date twice), whatever the
\* upstream sent.
C3_AllSeriesNormalized ==
    \A c \in 1..Len(output_data.categories) :
        LET data == output_data.categories[c].value
        IN  /\ StrictlyAscending(data.coin_prices)
            /\ \A i \in 1..Len(data.companies) :
                 StrictlyAscending(data.companies[i].prices)

\* the pairs get_crypto_data parsed from the answer it consumed
RawPairs == ParsePrices(upstream[1].items)

\* C4: the series returned holds exactly one point per distinct date of the
\* parsed pairs, that point is the last pair of its date in input order, and
\* the dates are strictly ascending.
C4_NormalizeKeepsLastPerDate ==
    (a_pc = "returned" /\ ~CryptoRaises(upstream[1])) =>
        /\ StrictlyAscending(fetched.prices)
        /\ DatesOf(fetched.prices) = DatesOf(RawPairs)
        /\ Len(fetched.prices) = Cardinality(DatesOf(RawPairs))
        /\ \A i \in 1..Len(fetched.prices) :
             fetched.prices[i] = RawPairs[LastIndexOf(RawPairs, fetched.prices[i].date)]

\* an answer whose later day comes first and whose earlier day comes twice
\* with two prices: two points are returned, the earlier day first with its
\* second price
C4_Witness ==
    /\ a_pc = "returned" /\ ~CryptoRaises(upstream[1])
    /\ Len(RawPairs) = 3
    /\ DateLess(RawPairs[2].date, RawPairs[1].date)
    /\ RawPairs[3].date = RawPairs[2].date
    /\ RawPairs[3].price # RawPairs[2].price
    /\ fetched.prices = <<RawPairs[3], RawPairs[1]>>

\* the index of the anchor of a fixed window: among the points dated on or
\* before the last date, the first in scan order at the least distance in
\* days from (last date - days)
FixedAnchor(ps, days) ==
    LET last == ToOrdinal(ps[Len(ps)].date)
        Dist(i) == Abs(ToOrdinal(ps[i].date) - (last - days))
        Eligible == {i \in 1..Len(ps) : ToOrdinal(ps[i].date) <= last}
    IN  CHOOSE i \in Eligible :
            \A j \in Eligible : Dist(i) < Dist(j) \/ (Dist(i) = Dist(j) /\ i <= j)

\* the index of the year-to-date anchor: among the points dated on or after
\* January 1 of the last date's year, the first in scan order at the least
\* distance in days from that January 1
YtdAnchor(ps) ==
    LET start == ToOrdinal(<<ps[Len(ps)].date[1], 1, 1>>)
        Dist(i) == Abs(ToOrdinal(ps[i].date) - start)
        Eligible == {i \in 1..Len(ps) : ToOrdinal(ps[i].date) >= start}
    IN  CHOOSE i \in Eligible :
            \A j \in Eligible : Dist(i) < Dist(j) \/ (Dist(i) = Dist(j) /\ i <= j)

RECURSIVE GCD(_, _)
GCD(a, b) == IF b = 0 THEN a ELSE GCD(b, a % b)

\* v hundredths of a percent is (current - anchor) / anchor x 100 rounded to
\* 2 places: no multiple of 0.01 is nearer
IsRoundedPct(v, current, anchor) ==
    LET x == current - anchor
        g == GCD(Abs(x), anchor)
        xr == x \div g
        ar == anchor \div g
    IN  2 * Abs(v * ar - 10000 * xr) <= ar

\* the report holds for the period the rounded ratio to the anchor's price
ReportsRatioTo(label, anchor_price) ==
    /\ ~IsNone(performance[label])
    /\ IsRoundedPct(Val(performance[label]), prices[Len(prices)].price, anchor_price)

PerfExample ==
    <<[date |-> <<2023, 12, 7>>, price |-> 100000000],
      [date |-> <<2025, 1, 3>>, price |-> 90000000],
      [date |-> <<2025, 1, 10>>, price |-> 120000000]>>

\* C5: for 1W, 3M, 6M and 1Y the scan selects the point on or before the last
\* date at the least distance in days from (last date - window), the first in
\* scan order on a tie, and with an anchor price > 0 the period reports
\* (last_price - anchor_price) / anchor_price x 100 rounded to 2 places; the
\* series [(d-400, 100), (d-7, 90), (d, 120)] has a 1W of 33.33.
C5_FixedWindowAnchor ==
    (p_pc = "returned" /\ Len(prices) >= 2) =>
        /\ \A label \in FixedLabels :
             LET anchor == prices[FixedAnchor(prices, PeriodDays(label))]
                 last == ToOrdinal(prices[Len(prices)].date)
             IN  /\ ScanClosest(prices, last - PeriodDays(label), last).price
                        = Some(anchor.price)
                 /\ anchor.price > 0 => ReportsRatioTo(label, anchor.price)
        /\ prices = PerfExample => performance["1W"] = Some(3333)

C5_Witness ==
    /\ p_pc = "returned"
    /\ prices = PerfExample
    /\ FixedAnchor(prices, 7) = 2
    /\ performance["1W"] = Some(3333)

\* C6: for YTD the scan selects the point nearest to, and never before,
\* January 1 of the last date's year, the first in scan order on a tie; no
\* point of an earlier year is chosen even when it is nearer to January 1, and
\* with an anchor price > 0 the period reports the rounded ratio to it.
C6_YtdAnchorNotBeforeJan1 ==
    (p_pc = "returned" /\ Len(prices) >= 2) =>
        LET anchor == prices[YtdAnchor(prices)]
            year == prices[Len(prices)].date[1]
        IN  /\ anchor.date[1] >= year
            /\ ScanYtd(prices, ToOrdinal(<<year, 1, 1>>)).price = Some(anchor.price)
            /\ anchor.price > 0 => ReportsRatioTo("YTD", anchor.price)

\* December 31 is one day from January 1 and January 4 three days from it:
\* the anchor is January 4, and YTD is (120 - 110) / 110 = 9.09
C6_Witness ==
    /\ p_pc = "returned"
    /\ prices = <<[date |-> <<2024, 12, 31>>, price |-> 80000000],
                  [date |-> <<2025, 1, 4>>, price |-> 110000000],
                  [date |-> <<2025, 1, 10>>, price |-> 120000000]>>
    /\ YtdAnchor(prices) = 2
    /\ performance["YTD"] = Some(909)

\* C7 as stated: the updated_at of the report written is the minute at which
\* the run completed, after every fetch and pacing delay.
C7_StampIsCompletionTime ==
    pc = "done" => Val(written).updated_at = Some(FormatMinute(clock))

\* C7 as amended: updated_at is the minute at which the run started: it is
\* taken when output_data is created, before the first upstream call, no later
\* step changes it, and the report written carries it.
C7_StampTakenAtStart ==
    [][/\ pc = "begin" => /\ fetch_log = <<>>
                          /\ output_data'.updated_at = Some(FormatMinute(clock))
       /\ pc # "begin" => output_data'.updated_at = output_data.updated_at
       /\ pc' = "done" => Val(written').updated_at = output_data.updated_at]_vars

\* a finished run whose report is stamped with an earlier minute than the one
\* it completed in
C7_Witness ==
    /\ pc = "done"
    /\ Len(fetch_log) = NumRecords
    /\ ~IsNone(Val(written).updated_at)
    /\ Val(Val(written).updated_at) < FormatMinute(clock)

\* the price of the anchor of a period, by the selection rules of C5 and C6
AnchorPrice(ps, label) ==
    IF label = "YTD" THEN ps[YtdAnchor(ps)].price
    ELSE ps[FixedAnchor(ps, PeriodDays(label))].price

\* C8: in every period, when no anchor exists or the anchor's price is zero or
\* negative the value is null; a value is reported only for an anchor price
\* > 0, so nothing is ever divided by a non-positive price.
C8_NonPositiveAnchorIsNull ==
    p_pc = "returned" =>
        \A label \in PeriodLabels :
            /\ (Len(prices) < 2 \/ AnchorPrice(prices, label) <= 0)
                   => performance[label] = None
            /\ performance[label] # None => AnchorPrice(prices, label) > 0

\* a series whose 1W anchor has the price zero and whose YTD anchor has a
\* negative price: both periods are null
C8_Witness ==
    /\ p_pc = "returned"
    /\ Len(prices) >= 2
    /\ AnchorPrice(prices, "1W") = 0 /\ performance["1W"] = None
    /\ AnchorPrice(prices, "YTD") < 0 /\ performance["YTD"] = None

\* C9: a series of length 0 or 1 gets exactly the labels 1W, 3M, 6M, YTD and
\* 1Y, each null.
C9_ShortSeriesAllNull ==
    (p_pc = "returned" /\ Len(prices) < 2) =>
        /\ DOMAIN performance = {"1W", "3M", "6M", "YTD", "1Y"}
        /\ \A label \in DOMAIN performance : performance[label] = None

C9_Witness ==
    /\ p_pc = "returned"
    /\ Len(prices) = 1
    /\ prices[1].price > 0
    /\ \A label \in {"1W", "3M", "6M", "YTD", "1Y"} : performance[label] = None

\* C10: normalizing the series get_crypto_data returned (already
\* de-duplicated and ascending) gives the same series.
C10_NormalizeIdempotent ==
    (a_pc = "returned" /\ ~CryptoRaises(upstream[1])) =>
        Normalize(fetched.prices) = fetched.prices

\* a returned series of two days, out of an answer of three items that had a
\* day twice, which a second normalization leaves as it is
C10_Witness ==
    /\ a_pc = "returned" /\ ~CryptoRaises(upstream[1])
    /\ Len(upstream[1].items) = 3
    /\ Len(fetched.prices) = 2
    /\ Normalize(Normalize(ParsePrices(upstream[1].items))) = fetched.prices

====
